---- MODULE Spec2Model ----
(***************************************************************************)
(* A model of the pull-request review service (src/api/main.py,            *)
(* src/api/model.py, src/api/auth.py).                                     *)
(*                                                                         *)
(* Text is modelled as a sequence of one-character strings, a patch as the *)
(* sequence of its lines (the result of patch.split('\n')).  The handler   *)
(* is an async function whose only await is the read of the request body:  *)
(* from there to its return it holds the event loop, so handlers of        *)
(* concurrent deliveries interleave at that one point only.                *)
(***************************************************************************)
EXTENDS Integers, Sequences, FiniteSets, TLC

\* ------------------------------------------------------------------ bounds
MaxDeliveries == 2
ReviewDeliveries == 1
MaxFiles == 2
MaxFindings == 2
MaxClock == 3
TokenValidity == 2

\* ------------------------------------------------------- program constants
MaxPatchLines == 1000
MinMeaningfulLines == 2
HTTP_OK == 200
HTTP_CREATED == 201

Deliveries == 1..MaxDeliveries
Installations == {1, 2}

\* ------------------------------------------------------------------- text
Digits == {"0", "1", "2", "3", "4", "5", "6", "7", "8", "9"}
Whitespace == {" ", "\t"}

DigitVal(c) ==
  CASE c = "0" -> 0 [] c = "1" -> 1 [] c = "2" -> 2 [] c = "3" -> 3
    [] c = "4" -> 4 [] c = "5" -> 5 [] c = "6" -> 6 [] c = "7" -> 7
    [] c = "8" -> 8 [] c = "9" -> 9

\* str.lower() on the characters the model uses
LowerChar(c) ==
  CASE c = "A" -> "a" [] c = "P" -> "p" [] c = "Y" -> "y" [] OTHER -> c

Lower(s) == [i \in 1..Len(s) |-> LowerChar(s[i])]

\* str.startswith / str.endswith
StartsWith(s, p) ==
  /\ Len(p) <= Len(s)
  /\ \A i \in 1..Len(p) : s[i] = p[i]

EndsWith(s, p) ==
  /\ Len(p) <= Len(s)
  /\ \A i \in 1..Len(p) : s[Len(s) - Len(p) + i] = p[i]

\* truth value of line.strip(): some character is not whitespace
StripNonEmpty(s) == \E i \in 1..Len(s) : s[i] \notin Whitespace

\* line[1:]
Rest(s) == IF Len(s) = 0 THEN <<>> ELSE Tail(s)

\* patch.split('\n'): the empty text splits into one empty line
SplitLines(patch) == IF patch = <<>> THEN << <<>> >> ELSE patch

\* ------------------------------------------------------ the hunk header regex
\* index of the first non-digit at or after i
RECURSIVE SkipDigits(_, _)
SkipDigits(s, i) ==
  IF i <= Len(s) /\ s[i] \in Digits THEN SkipDigits(s, i + 1) ELSE i

\* int() of the digits s[i..j-1]
RECURSIVE DigitsToInt(_, _, _, _)
DigitsToInt(s, i, j, acc) ==
  IF i >= j THEN acc ELSE DigitsToInt(s, i + 1, j, acc * 10 + DigitVal(s[i]))

HasAt(s, i, p) ==
  /\ i + Len(p) - 1 <= Len(s)
  /\ \A k \in 1..Len(p) : s[i + k - 1] = p[k]

SkipComma(s, i) == IF i <= Len(s) /\ s[i] = "," THEN i + 1 ELSE i

\* r'@@ -(\d+),?\d* \+(\d+),?\d* @@' matched at position i: group(2), or -1
HunkMatchAt(s, i) ==
  IF ~HasAt(s, i, <<"@", "@", " ", "-">>) THEN -1
  ELSE LET a1 == i + 4
           a2 == SkipDigits(s, a1)
           a3 == SkipDigits(s, SkipComma(s, a2))
       IN IF a2 = a1 \/ ~HasAt(s, a3, <<" ", "+">>) THEN -1
          ELSE LET c1 == a3 + 2
                   c2 == SkipDigits(s, c1)
                   c3 == SkipDigits(s, SkipComma(s, c2))
               IN IF c2 = c1 \/ ~HasAt(s, c3, <<" ", "@", "@">>) THEN -1
                  ELSE DigitsToInt(s, c1, c2, 0)

\* re.search: the leftmost position where the pattern matches
RECURSIVE HunkSearch(_, _)
HunkSearch(s, i) ==
  IF i > Len(s) THEN -1
  ELSE IF HunkMatchAt(s, i) >= 0 THEN HunkMatchAt(s, i)
  ELSE HunkSearch(s, i + 1)

\* ------------------------------------------------------------ patch parsing
EmptyChanges ==
  [added_lines |-> <<>>, removed_lines |-> <<>>, context_lines |-> <<>>,
   line_numbers |-> <<>>, current_line_num |-> 0]

\* ParseLine, had the branch for removed lines advanced the counter as well
ParseLine_removed_advances(ch, line) ==
  IF StartsWith(line, <<"@", "@">>)
  THEN IF HunkSearch(line, 1) >= 0
       THEN [ch EXCEPT !.current_line_num = HunkSearch(line, 1)]
       ELSE ch
  ELSE IF StartsWith(line, <<"+">>) /\ ~StartsWith(line, <<"+", "+", "+">>)
  THEN [ch EXCEPT
          !.added_lines = Append(@, <<ch.current_line_num, Rest(line)>>),
          !.line_numbers = Append(@, ch.current_line_num),
          !.current_line_num = @ + 1]
  ELSE IF StartsWith(line, <<"-">>)
  THEN [ch EXCEPT !.removed_lines = Append(@, Rest(line)),
                  !.current_line_num = @ + 1]
  ELSE IF line # <<>> /\ ~StartsWith(line, <<"\\">>)
  THEN [ch EXCEPT
          !.context_lines = Append(@, <<ch.current_line_num,
                IF StartsWith(line, <<" ">>) THEN Rest(line) ELSE line>>),
          !.current_line_num = @ + 1]
  ELSE ch

\* one iteration of the loop over the lines
ParseLine(ch, line) ==
  IF StartsWith(line, <<"@", "@">>)
  THEN IF HunkSearch(line, 1) >= 0
       THEN [ch EXCEPT !.current_line_num = HunkSearch(line, 1)]
       ELSE ch
  ELSE IF StartsWith(line, <<"+">>) /\ ~StartsWith(line, <<"+", "+", "+">>)
  THEN [ch EXCEPT
          !.added_lines = Append(@, <<ch.current_line_num, Rest(line)>>),
          !.line_numbers = Append(@, ch.current_line_num),
          !.current_line_num = @ + 1]
  ELSE IF StartsWith(line, <<"-">>)
  THEN [ch EXCEPT !.removed_lines = Append(@, Rest(line))]
  ELSE IF line # <<>> /\ ~StartsWith(line, <<"\\">>)
  THEN [ch EXCEPT
          !.context_lines = Append(@, <<ch.current_line_num,
                IF StartsWith(line, <<" ">>) THEN Rest(line) ELSE line>>),
          !.current_line_num = @ + 1]
  ELSE ch

RECURSIVE ParseFrom(_, _, _)
ParseFrom(lines, i, ch) ==
  IF i > Len(lines) THEN ch ELSE ParseFrom(lines, i + 1, ParseLine(ch, lines[i]))

parse_patch_changes(patch) == ParseFrom(SplitLines(patch), 1, EmptyChanges)

\* --------------------------------------------------------------- file filter
code_extensions ==
  << <<".", "p", "y">>, <<".", "j", "s">>, <<".", "j", "s", "x">>,
     <<".", "t", "s">>, <<".", "t", "s", "x">>, <<".", "j", "a", "v", "a">>,
     <<".", "c", "p", "p">>, <<".", "c">>, <<".", "g", "o">>, <<".", "r", "s">>,
     <<".", "p", "h", "p">>, <<".", "r", "b">>, <<".", "s", "w", "i", "f", "t">>,
     <<".", "k", "t">>, <<".", "s", "q", "l">>, <<".", "c", "s", "s">>,
     <<".", "s", "c", "s", "s">>, <<".", "h", "t", "m", "l">>,
     <<".", "v", "u", "e">>, <<".", "s", "h">> >>

NoPatchAvailable == << <<"No patch available">> >>

\* meaningful_lines, had the "+++" / "---" header lines not been excluded
meaningful_lines_with_headers(patch) ==
  SelectSeq(SplitLines(patch),
            LAMBDA line :
              /\ StartsWith(line, <<"+">>) \/ StartsWith(line, <<"-">>)
              /\ StripNonEmpty(line))

meaningful_lines(patch) ==
  SelectSeq(SplitLines(patch),
            LAMBDA line :
              /\ StartsWith(line, <<"+">>) \/ StartsWith(line, <<"-">>)
              /\ StripNonEmpty(line)
              /\ ~StartsWith(line, <<"+", "+", "+">>)
              /\ ~StartsWith(line, <<"-", "-", "-">>))

should_review_file(filename, patch) ==
  IF patch = <<>> \/ patch = NoPatchAvailable THEN FALSE
  ELSE IF ~\E i \in 1..Len(code_extensions) :
             EndsWith(Lower(filename), code_extensions[i]) THEN FALSE
  ELSE IF Len(SplitLines(patch)) > MaxPatchLines THEN FALSE
  ELSE IF Len(meaningful_lines(patch)) < MinMeaningfulLines THEN FALSE
  ELSE TRUE

\* ------------------------------------------------------------- JSON values
\* A decoded JSON value: its type and, for the iterable types, what iterating
\* it yields (a list's elements, a dict's keys, a string's characters).
\* An element is a dict with the keys it has, or a scalar.
JNone == [t |-> "none", items |-> <<>>]
JNum == [t |-> "num", items |-> <<>>]
JNull == [t |-> "null", items |-> <<>>]
JList(items) == [t |-> "list", items |-> items]

Dict(keys, file, start_line, end_line, body) ==
  [t |-> "dict", keys |-> keys, file |-> file, start_line |-> start_line,
   end_line |-> end_line, body |-> body]
ScalarElem(t) == [Dict({}, <<>>, 0, 0, <<>>) EXCEPT !.t = t]

FindingKeys == {"file", "start_line", "end_line", "body"}

\* a text: its words, and the value it decodes to when it is JSON
Text(words, json) == [words |-> words, json |-> json]

\* str.replace('\n', '')
RemoveNewlines(text) ==
  [text EXCEPT !.words = SelectSeq(@, LAMBDA w : w # "\n")]

JSONDecodeError == <<"Expecting value: line 1 column 1 (char 0)">>

\* json.loads: the decoded value, or JNone when it raises JSONDecodeError
json_loads(text) == text.json

\* ------------------------------------------------------------ review client
ReviewErrorText(detail) ==
  Text(<<"**", "Review Error", "**: ">> \o detail, JNone)

NoChangesText ==
  Text(<<"No significant changes to review in this file.">>, JNone)

\* whether query_openrouter_focused reaches its POST to the LLM endpoint
CallsLLM(patch) ==
  LET changes == parse_patch_changes(patch)
  IN ~(changes.added_lines = <<>> /\ changes.removed_lines = <<>>)

\* resp is what the LLM endpoint does with the request
query_openrouter_focused(filename, patch, file_status, resp) ==
  IF ~CallsLLM(patch) THEN NoChangesText
  ELSE IF resp.exc THEN ReviewErrorText(<<"timed out">>)
  ELSE IF resp.status_code # HTTP_OK THEN ReviewErrorText(<<"API error.">>)
  ELSE IF resp.has_choices THEN resp.content
  ELSE ReviewErrorText(<<"No valid response.">>)

\* the backtick character of the f-string
Backtick == "BACKTICK"

\* main.py's fallback when decoding the review raises
error_review(filename, e) ==
  JList(<< Dict({"body"}, <<>>, 0, 0,
                <<"Review error in ", Backtick>> \o filename \o <<Backtick, ": ">> \o e) >>)

\* lines 291-298 of the handler: the review appended to all_reviews
ReviewOf(filename, patch, file_status, resp) ==
  LET review_json == RemoveNewlines(
                       query_openrouter_focused(filename, patch, file_status, resp))
      parsed_review == json_loads(review_json)
  IN IF parsed_review = JNone
     THEN error_review(filename, JSONDecodeError)
     ELSE parsed_review

\* ------------------------------------------------------------ posting helpers
NonePath == <<"None">>

\* find_file_path_in_pr once its GET succeeded: the first path ending with filename
RECURSIVE FirstMatch(_, _, _)
FirstMatch(files, filename, i) ==
  IF i > Len(files) THEN NonePath
  ELSE IF EndsWith(files[i].filename, filename) THEN files[i].filename
  ELSE FirstMatch(files, filename, i + 1)

find_file_path_in_pr(files, filename) == FirstMatch(files, filename, 1)

\* enumerate(comments) raises TypeError on a value that is not iterable
Iterable(review) == review.t \in {"list", "dict", "str"}

\* c["file"] succeeds: c is a dict that has the key
HasKey(c, k) == c.t = "dict" /\ k \in c.keys

\* ------------------------------------------------- the environment's inputs
\* all sequences of distinct elements of S of length at most n
SeqsNoRep(S, n) ==
  UNION {{q \in [1..k -> S] : \A i, j \in 1..k : i # j => q[i] # q[j]} : k \in 0..n}

\* all sequences over S of length 1..n
SeqsUpTo(S, n) == UNION {[1..k -> S] : k \in 1..n}

Name_a == <<"d", "/", "a", ".", "p", "y">>
Name_b == <<"b", ".", "j", "s">>
Name_r == <<"r", ".", "m", "d">>
Name_c == <<"c", ".", "p", "y">>
Name_x == <<"x", ".", "p", "y">>

\* "@@ -1,2 +1,3 @@" / " c" / "+x" / "-y"
Patch_mod ==
  << <<"@", "@", " ", "-", "1", ",", "2", " ", "+", "1", ",", "3", " ", "@", "@">>,
     <<" ", "c">>, <<"+", "x">>, <<"-", "y">> >>

\* "@@ -0,0 +1,2 @@" / "+a" / "+b"
Patch_add ==
  << <<"@", "@", " ", "-", "0", ",", "0", " ", "+", "1", ",", "2", " ", "@", "@">>,
     <<"+", "a">>, <<"+", "b">> >>

FilePatch(filename, status, patch) ==
  [filename |-> filename, status |-> status, patch |-> patch]

FilePatches ==
  { FilePatch(Name_a, "modified", Patch_mod),
    FilePatch(Name_b, "added", Patch_add),
    FilePatch(Name_r, "modified", Patch_mod),
    FilePatch(Name_c, "renamed", <<>>) }

\* the part of a path after its last "/": the bare name an LLM may echo
RECURSIVE BaseName(_)
BaseName(path) ==
  IF \E i \in 1..Len(path) : path[i] = "/" THEN BaseName(Tail(path)) ELSE path

\* findings an LLM may return for a file: on the file by its bare name (at a
\* line of the diff or not), or on a file that is not in the pull request
Findings(filename) ==
  { Dict(FindingKeys, BaseName(filename), 1, 2, <<"Issue", "2">>),
    Dict(FindingKeys, BaseName(filename), 1, 7, <<"Issue", "7">>),
    Dict(FindingKeys, Name_x, 1, 2, <<"Issue", "x">>) }

\* message contents an LLM may return for a file
Contents(filename) ==
  { Text(<<"LGTM">>, JNone),
    Text(<<"5">>, JNum),
    Text(<<"null">>, JNull),
    Text(<<"\"ok\"">>, [t |-> "str", items |-> <<ScalarElem("str"), ScalarElem("str")>>]),
    Text(<<"{\"file\": 1}">>, [t |-> "dict", items |-> <<ScalarElem("str")>>]),
    Text(<<"[]">>, JList(<<>>)),
    Text(<<"[1]">>, JList(<<ScalarElem("num")>>)),
    Text(<<"[{\"file\": ..., \"body\": ...}]">>,
         JList(<<Dict({"file", "body"}, BaseName(filename), 0, 0, <<"Issue">>)>>)) }
  \cup { Text(<<"[", "\n", "findings", "]">>, JList(q)) :
           q \in SeqsUpTo(Findings(filename), MaxFindings) }

LlmResponse(exc, status_code, has_choices, content) ==
  [exc |-> exc, status_code |-> status_code, has_choices |-> has_choices,
   content |-> content]

\* The environment is explored in two profiles, so that the product of its
\* dimensions stays finite: "review" is one delivery over every file list and
\* every LLM answer, with time standing still; "traffic" is several deliveries,
\* concurrently in flight, for several installations, with time passing, over
\* few file lists and LLM answers.
Profiles == {"review", "traffic"}

\* what the LLM endpoint may do with the request for a file
LlmResponses(prof, filename) ==
  IF prof = "review"
  THEN { LlmResponse(TRUE, 0, FALSE, NoChangesText),
         LlmResponse(FALSE, 500, FALSE, NoChangesText),
         LlmResponse(FALSE, HTTP_OK, FALSE, NoChangesText) }
       \cup { LlmResponse(FALSE, HTTP_OK, TRUE, c) : c \in Contents(filename) }
  ELSE { LlmResponse(FALSE, 500, FALSE, NoChangesText),
         LlmResponse(FALSE, HTTP_OK, TRUE,
                     Text(<<"[", "\n", "findings", "]">>,
                          JList(<<Dict(FindingKeys, BaseName(filename), 1, 2,
                                       <<"Issue", "2">>)>>))) }

\* webhook bodies
Payload(json, has_pr, pr_data, missing, action, installation_id) ==
  [json |-> json, has_pull_request |-> has_pr, pr_data |-> pr_data,
   missing |-> missing, action |-> action, installation_id |-> installation_id]

NoPayload == Payload(FALSE, FALSE, FALSE, {}, "", 0)

Actions == {"opened", "closed", "locked", "unlocked"}
IgnoredActions == {"closed", "locked", "unlocked"}

Payloads(prof) ==
  IF prof = "traffic"
  THEN { Payload(TRUE, TRUE, TRUE, {}, "opened", i) : i \in Installations }
       \cup { Payload(TRUE, TRUE, TRUE, {}, "closed", 1) }
  ELSE
  { Payload(FALSE, FALSE, FALSE, {}, "", 0),
    Payload(TRUE, FALSE, FALSE, {}, "push", 0),
    Payload(TRUE, TRUE, FALSE, {}, "opened", 0) }
  \cup { Payload(TRUE, TRUE, TRUE, {}, a, 1) : a \in Actions }
  \cup { Payload(TRUE, TRUE, TRUE, {k}, a, 0) :
           a \in {"opened", "closed"}, k \in {"repository", "installation", "number"} }

\* ------------------------------------------------------------------ state
VARIABLES
  profile,            \* the environment's profile; it never changes
  clock,              \* time, in HTTP timeouts
  GITHUB_TOKEN,       \* main.py: the global installation token
  headers_github,     \* main.py: the global headers; Authorization carries a token
  last_patches,       \* main.py: global
  last_full_comment,  \* main.py: global
  nextTok,            \* the provider's serial number for the next token it issues
  lastTok,            \* per installation, the last token a delivery obtained for it
  budget,             \* deliveries the host may still send
  loop,               \* the delivery whose handler the event loop is running, or 0
  loc,                \* per delivery: the handler's position and local variables
  obs,                \* per delivery: what it has done so far (observation only)
  fcall               \* the function call under way when one function is run alone

vars == <<profile, clock, GITHUB_TOKEN, headers_github, last_patches, last_full_comment,
          nextTok, lastTok, budget, loop, loc, obs, fcall>>

\* the module-level state of main.py (and the profile, which nothing changes)
globals == <<profile, GITHUB_TOKEN, headers_github, last_patches, last_full_comment>>

Token(id, inst, at) == [id |-> id, inst |-> inst, at |-> at]
NoToken == Token(-1, 0, 0)

\* the provider stops honouring a token once its validity window has elapsed
Expired(tok) == clock >= tok.at + TokenValidity

Headers(tok) == [Authorization |-> tok]

Response(kind, status_code, message, files_total, files_reviewed, review_posted, success) ==
  [kind |-> kind, status_code |-> status_code, message |-> message,
   files_total |-> files_total, files_reviewed |-> files_reviewed,
   review_posted |-> review_posted, success |-> success]

NoResponse == Response("none", 0, <<>>, 0, 0, FALSE, FALSE)
NoOp(message) == Response("noop", HTTP_OK, message, 0, 0, FALSE, FALSE)
\* HTTPException, had the handler returned the detail as a body instead of raising
HTTPException_returned(detail) == Response("summary", HTTP_OK, detail, 0, 0, FALSE, FALSE)

\* raise HTTPException(status_code=500, detail=...)
HTTPException(detail) == Response("error", 500, detail, 0, 0, FALSE, FALSE)
\* Failed, had the handler no except clause: the exception leaves it as it is
Failed_uncaught(e) == Response("exception", 0, <<e>>, 0, 0, FALSE, FALSE)

\* line 321: any other exception leaves the handler as an HTTPException
Failed(e) == HTTPException(<<"Webhook processing failed: ", e>>)

InitLoc ==
  [pc |-> "idle", payload |-> NoPayload, files |-> <<>>, idx |-> 0,
   code_files_count |-> 0, all_reviews |-> <<>>, ridx |-> 0, cidx |-> 0,
   formatted_comments |-> <<>>, success_all |-> TRUE, success |-> FALSE,
   response |-> NoResponse]

InitObs ==
  [calls |-> {}, stale |-> {}, toks |-> {}, posts |-> <<>>, exchanges |-> 0,
   minted |-> NoToken, arrived |-> 0, prior |-> NoToken, peer |-> NoToken,
   redundant |-> FALSE, dropped |-> <<>>, llm |-> <<>>, failures |-> {}]

\* a call of one of the functions on its own: the file it is applied to, how
\* far the loop over the patch lines has come, and what the functions returned
Call(file, stage, idx, changes, verdict, answer, called) ==
  [file |-> file, stage |-> stage, idx |-> idx, changes |-> changes,
   verdict |-> verdict, answer |-> answer, called |-> called]

NoCall == Call(FilePatch(<<>>, "", <<>>), "none", 0, EmptyChanges, FALSE,
               NoChangesText, FALSE)

ServiceInit ==
  /\ profile \in Profiles
  /\ clock = 0
  /\ GITHUB_TOKEN = Token(0, 1, 0)
  /\ headers_github = Headers(Token(0, 1, 0))
  /\ last_patches = <<>>
  /\ last_full_comment = [t |-> "str", items |-> <<>>]
  /\ nextTok = 1
  /\ lastTok = [i \in Installations |-> NoToken]
  /\ budget = IF profile = "review" THEN ReviewDeliveries ELSE MaxDeliveries
  /\ loop = 0
  /\ loc = [d \in Deliveries |-> InitLoc]
  /\ obs = [d \in Deliveries |-> InitObs]

Init ==
  /\ ServiceInit
  /\ fcall = NoCall

\* an authenticated call to the repository service, made with the global headers
AuthCall(o, kind) ==
  [o EXCEPT !.calls = @ \cup {kind},
            !.toks = @ \cup {headers_github.Authorization.id},
            !.stale = IF Expired(headers_github.Authorization)
                      THEN @ \cup {kind} ELSE @]

\* ---------------------------------------------------------------- actions
\* time passes (any blocking call may take up to its timeout)
Tick ==
  /\ profile = "traffic"
  /\ clock < MaxClock
  /\ clock' = clock + 1
  /\ UNCHANGED <<fcall, globals, nextTok, lastTok, budget, loop, loc, obs>>

\* the host sends a delivery; the handler awaits the body (line 236)
Receive(d) ==
  /\ loc[d].pc = "idle"
  /\ budget > 0
  /\ \E p \in Payloads(profile) :
       /\ loc' = [loc EXCEPT ![d] = [InitLoc EXCEPT !.pc = "await", !.payload = p]]
       /\ obs' = [obs EXCEPT ![d] =
                    [InitObs EXCEPT !.arrived = clock,
                                    !.prior = IF p.installation_id \in Installations
                                              THEN lastTok[p.installation_id]
                                              ELSE NoToken]]
  /\ budget' = budget - 1
  /\ UNCHANGED <<fcall, clock, globals, nextTok, lastTok, loop>>

\* the step of lines 236-248 that raises on the payload, if one does
StartFailure(p) ==
  IF ~p.json THEN {"payload"}
  ELSE IF p.has_pull_request /\ p.pr_data /\ p.missing # {} THEN {"field"}
  ELSE {}

\* lines 236-254: the body is decoded and the payload examined
StartResult(p) ==
  IF ~p.json THEN Failed("JSONDecodeError")
  ELSE IF ~p.has_pull_request THEN NoOp(<<"Not a PR event">>)
  ELSE IF ~p.pr_data THEN NoOp(<<"No PR data">>)
  ELSE IF "repository" \in p.missing THEN Failed("KeyError: 'repository'")
  ELSE IF "installation" \in p.missing THEN Failed("KeyError: 'installation'")
  ELSE IF "number" \in p.missing THEN Failed("KeyError: 'number'")
  ELSE IF p.action \in IgnoredActions THEN NoOp(<<"Action ", p.action, " ignored">>)
  ELSE NoResponse

Start(d) ==
  /\ loc[d].pc = "await"
  /\ loop = 0
  /\ loop' = d
  /\ LET r == StartResult(loc[d].payload)
     IN loc' = [loc EXCEPT ![d].pc = IF r = NoResponse THEN "token" ELSE "done",
                           ![d].response = r]
  /\ obs' = [obs EXCEPT ![d].failures = StartFailure(loc[d].payload)]
  /\ UNCHANGED <<fcall, clock, globals, nextTok, lastTok, budget>>

\* Exchange, had headers_github not been declared global: the new headers stay local
Exchange_local_headers(d) ==
  /\ loc[d].pc = "token"
  /\ loop = d
  /\ LET inst == loc[d].payload.installation_id
         tok == Token(nextTok, inst, clock)
         o == [obs[d] EXCEPT !.calls = @ \cup {"exchange"}, !.exchanges = @ + 1]
     IN \/ /\ GITHUB_TOKEN' = tok
           /\ UNCHANGED headers_github
           /\ nextTok' = nextTok + 1
           /\ lastTok' = [lastTok EXCEPT ![inst] = tok]
           /\ loc' = [loc EXCEPT ![d].pc = "fetch"]
           /\ obs' = [e \in Deliveries |->
                        IF e = d
                        THEN [o EXCEPT !.minted = tok,
                                       !.redundant = obs[d].peer # NoToken
                                                     /\ ~Expired(obs[d].peer)]
                        ELSE IF loc[e].pc = "await"
                                /\ loc[e].payload.installation_id = inst
                        THEN [obs[e] EXCEPT !.peer = tok]
                        ELSE obs[e]]
        \/ /\ loc' = [loc EXCEPT ![d].pc = "done",
                                 ![d].response = Failed("HTTPError")]
           /\ obs' = [obs EXCEPT ![d] = [o EXCEPT !.failures = @ \cup {"exchange"}]]
           /\ UNCHANGED <<GITHUB_TOKEN, headers_github, nextTok, lastTok>>
  /\ UNCHANGED <<fcall, profile, clock, last_patches, last_full_comment, budget, loop>>

\* lines 257-265: a token is exchanged for the installation and the globals set
Exchange(d) ==
  /\ loc[d].pc = "token"
  /\ loop = d
  /\ LET inst == loc[d].payload.installation_id
         tok == Token(nextTok, inst, clock)
         o == [obs[d] EXCEPT !.calls = @ \cup {"exchange"}, !.exchanges = @ + 1]
     IN \/ /\ GITHUB_TOKEN' = tok
           /\ headers_github' = Headers(tok)
           /\ nextTok' = nextTok + 1
           /\ lastTok' = [lastTok EXCEPT ![inst] = tok]
           /\ loc' = [loc EXCEPT ![d].pc = "fetch"]
           /\ obs' = [e \in Deliveries |->
                        IF e = d
                        THEN [o EXCEPT !.minted = tok,
                                       !.redundant = obs[d].peer # NoToken
                                                     /\ ~Expired(obs[d].peer)]
                        ELSE IF loc[e].pc = "await"
                                /\ loc[e].payload.installation_id = inst
                        THEN [obs[e] EXCEPT !.peer = tok]
                        ELSE obs[e]]
        \/ /\ loc' = [loc EXCEPT ![d].pc = "done",
                                 ![d].response = Failed("HTTPError")]
           /\ obs' = [obs EXCEPT ![d] = [o EXCEPT !.failures = @ \cup {"exchange"}]]
           /\ UNCHANGED <<GITHUB_TOKEN, headers_github, nextTok, lastTok>>
  /\ UNCHANGED <<fcall, profile, clock, last_patches, last_full_comment, budget, loop>>

\* what the changed-files endpoint may list for the pull request
FileLists(prof) ==
  IF prof = "review" THEN SeqsNoRep(FilePatches, MaxFiles)
  ELSE {<<>>, <<FilePatch(Name_a, "modified", Patch_mod)>>}

\* AfterFile, had the handler posted each review as soon as it was made
AfterFile_eager(files, i, all_reviews) ==
  IF all_reviews # <<>> THEN "post_sha"
  ELSE IF i <= Len(files) THEN "review"
  ELSE "return"

\* AfterFile, had the handler fetched the files again when nothing was reviewed
AfterFile_retry(files, i, all_reviews) ==
  IF i <= Len(files) THEN "review"
  ELSE IF all_reviews # <<>> THEN "post_sha"
  ELSE "fetch"

\* the handler's position once the file at index i - 1 has been dealt with
AfterFile(files, i, all_reviews) ==
  IF i <= Len(files) THEN "review"
  ELSE IF all_reviews # <<>> THEN "post_sha"
  ELSE "return"

\* lines 267-276: the changed files are fetched
FetchFiles(d) ==
  /\ loc[d].pc = "fetch"
  /\ loop = d
  /\ \/ \E fl \in FileLists(profile) :
          /\ obs' = [obs EXCEPT ![d] = AuthCall(@, "files")]
          /\ loc' = [loc EXCEPT ![d].files = fl,
                                ![d].code_files_count = 0,
                                ![d].all_reviews = <<>>,
                                ![d].idx = 1,
                                ![d].ridx = 1,
                                ![d].pc = AfterFile(fl, 1, <<>>)]
          /\ last_patches' = <<>>
     \/ /\ obs' = [obs EXCEPT ![d] =
                     [AuthCall(@, "files") EXCEPT !.failures = @ \cup {"files_status"}]]
        /\ loc' = [loc EXCEPT ![d].pc = "done",
                              ![d].response = HTTPException(<<"Failed to fetch PR files">>)]
        /\ UNCHANGED last_patches
     \/ /\ obs' = [obs EXCEPT ![d] =
                     [AuthCall(@, "files") EXCEPT !.failures = @ \cup {"files"}]]
        /\ loc' = [loc EXCEPT ![d].pc = "done",
                              ![d].response = Failed("ConnectionError")]
        /\ UNCHANGED last_patches
  /\ UNCHANGED <<fcall, profile, clock, GITHUB_TOKEN, headers_github, last_full_comment,
                 nextTok, lastTok, budget, loop>>

\* lines 278-286: a file the filter rejects is passed over
SkipFile(d) ==
  /\ loc[d].pc = "review"
  /\ loop = d
  /\ LET file == loc[d].files[loc[d].idx]
     IN /\ ~should_review_file(file.filename, file.patch)
        /\ loc' = [loc EXCEPT ![d].idx = @ + 1,
                              ![d].pc = AfterFile(loc[d].files, loc[d].idx + 1,
                                                  loc[d].all_reviews)]
  /\ UNCHANGED <<fcall, clock, globals, nextTok, lastTok, budget, loop, obs>>

\* a list of finding objects {file, start_line, end_line, body}
ValidFindings(json) ==
  /\ json.t = "list"
  /\ \A i \in 1..Len(json.items) :
       json.items[i].t = "dict" /\ FindingKeys \subseteq json.items[i].keys

\* what the LLM endpoint did for a reviewed file: how the call ended and whether
\* the content it returned was a valid list of findings
LlmOutcome(patch, resp) ==
  [called |-> CallsLLM(patch),
   exc |-> resp.exc,
   status_code |-> resp.status_code,
   has_choices |-> resp.has_choices,
   valid |-> resp.has_choices /\ ValidFindings(resp.content.json)]

\* lines 278-298: a file that passes the filter is reviewed
ReviewFile(d) ==
  /\ loc[d].pc = "review"
  /\ loop = d
  /\ LET file == loc[d].files[loc[d].idx]
     IN /\ should_review_file(file.filename, file.patch)
        /\ \E resp \in LlmResponses(profile, file.filename) :
           /\ LET review == ReviewOf(file.filename, file.patch, file.status, resp)
                 reviews == Append(loc[d].all_reviews, review)
              IN loc' = [loc EXCEPT ![d].code_files_count = @ + 1,
                                    ![d].all_reviews = reviews,
                                    ![d].idx = @ + 1,
                                    ![d].pc = AfterFile(loc[d].files, loc[d].idx + 1,
                                                        reviews)]
           /\ obs' = [obs EXCEPT ![d].calls =
                                  IF CallsLLM(file.patch) THEN @ \cup {"llm"} ELSE @,
                                ![d].llm = Append(@, LlmOutcome(file.patch, resp))]
        /\ last_patches' = Append(last_patches, file.patch)
  /\ UNCHANGED <<fcall, profile, clock, GITHUB_TOKEN, headers_github, last_full_comment,
                 nextTok, lastTok, budget, loop>>

\* post_review_comments, lines 129-136: the head commit is fetched, then the
\* loop over the comments is entered
GetCommitSha(d) ==
  /\ loc[d].pc = "post_sha"
  /\ loop = d
  /\ LET review == loc[d].all_reviews[loc[d].ridx]
     IN \E ok \in BOOLEAN :
          /\ obs' = [obs EXCEPT ![d] =
                       [AuthCall(@, "sha") EXCEPT !.failures =
                          IF ~ok THEN @ \cup {"sha"}
                          ELSE IF ~Iterable(review) THEN @ \cup {"comments"}
                          ELSE @]]
          /\ loc' = [loc EXCEPT ![d] =
            IF ~ok THEN [@ EXCEPT !.pc = "done", !.response = Failed("HTTPError")]
            ELSE IF ~Iterable(review)
            THEN [@ EXCEPT !.pc = "done", !.response = Failed("TypeError")]
            ELSE [@ EXCEPT !.success_all = TRUE,
                           !.formatted_comments = <<>>,
                           !.cidx = 1,
                           !.pc = IF review.items = <<>> THEN "post_send"
                                  ELSE "post_cmt"]]
  /\ UNCHANGED <<fcall, clock, globals, nextTok, lastTok, budget, loop>>

Comment(path, position, body) ==
  [path |-> path, position |-> position, body |-> body]

\* PrepareComment, had a comment been put in front of the list instead of appended
PrepareComment_prepend(d) ==
  /\ loc[d].pc = "post_cmt"
  /\ loop = d
  /\ LET review == loc[d].all_reviews[loc[d].ridx]
         c == review.items[loc[d].cidx]
         next == IF loc[d].cidx < Len(review.items) THEN "post_cmt" ELSE "post_send"
         drop == [loc[d] EXCEPT !.success_all = FALSE, !.cidx = @ + 1, !.pc = next]
     IN IF ~HasKey(c, "file")
        THEN /\ loc' = [loc EXCEPT ![d] = drop]
             /\ obs' = [obs EXCEPT ![d].dropped = Append(@, c)]
        ELSE \E ok \in BOOLEAN :
               IF ok /\ HasKey(c, "end_line") /\ HasKey(c, "body")
               THEN /\ loc' = [loc EXCEPT ![d] =
                          [@ EXCEPT !.formatted_comments =
                                      <<Comment(
                                        find_file_path_in_pr(loc[d].files, c.file),
                                        c.end_line, c.body)>> \o @,
                                    !.cidx = @ + 1,
                                    !.pc = next]]
                    /\ obs' = [obs EXCEPT ![d] = AuthCall(@, "resolve")]
               ELSE /\ loc' = [loc EXCEPT ![d] = drop]
                    /\ obs' = [obs EXCEPT ![d] =
                                 [AuthCall(@, "resolve") EXCEPT
                                    !.dropped = Append(@, c),
                                    !.failures = IF ok THEN @ ELSE @ \cup {"resolve"}]]
  /\ UNCHANGED <<fcall, clock, globals, nextTok, lastTok, budget, loop>>

\* post_review_comments, lines 136-153: one iteration of the loop over the comments
PrepareComment(d) ==
  /\ loc[d].pc = "post_cmt"
  /\ loop = d
  /\ LET review == loc[d].all_reviews[loc[d].ridx]
         c == review.items[loc[d].cidx]
         next == IF loc[d].cidx < Len(review.items) THEN "post_cmt" ELSE "post_send"
         drop == [loc[d] EXCEPT !.success_all = FALSE, !.cidx = @ + 1, !.pc = next]
     IN IF ~HasKey(c, "file")
        THEN /\ loc' = [loc EXCEPT ![d] = drop]
             /\ obs' = [obs EXCEPT ![d].dropped = Append(@, c)]
        ELSE \E ok \in BOOLEAN :
               IF ok /\ HasKey(c, "end_line") /\ HasKey(c, "body")
               THEN /\ loc' = [loc EXCEPT ![d] =
                          [@ EXCEPT !.formatted_comments =
                                      Append(@, Comment(
                                        find_file_path_in_pr(loc[d].files, c.file),
                                        c.end_line, c.body)),
                                    !.cidx = @ + 1,
                                    !.pc = next]]
                    /\ obs' = [obs EXCEPT ![d] = AuthCall(@, "resolve")]
               ELSE /\ loc' = [loc EXCEPT ![d] = drop]
                    /\ obs' = [obs EXCEPT ![d] =
                                 [AuthCall(@, "resolve") EXCEPT
                                    !.dropped = Append(@, c),
                                    !.failures = IF ok THEN @ ELSE @ \cup {"resolve"}]]
  /\ UNCHANGED <<fcall, clock, globals, nextTok, lastTok, budget, loop>>

Submission(commit_id, comments, status_code) ==
  [commit_id |-> commit_id, comments |-> comments, status_code |-> status_code]

\* post_review_comments, lines 156-174, and lines 303-304 of the handler
SubmitReview(d) ==
  /\ loc[d].pc = "post_send"
  /\ loop = d
  /\ \/ \E status_code \in {HTTP_CREATED, 422} :
          /\ loc' = [loc EXCEPT ![d] =
                [@ EXCEPT !.success_all = @ /\ status_code = HTTP_CREATED,
                          !.success = loc[d].success_all /\ status_code = HTTP_CREATED,
                          !.ridx = @ + 1,
                          !.pc = IF loc[d].ridx < Len(loc[d].all_reviews)
                                 THEN "post_sha" ELSE "return"]]
          /\ obs' = [obs EXCEPT ![d] =
                [AuthCall(@, "post") EXCEPT
                   !.posts = Append(@, Submission("head", loc[d].formatted_comments,
                                                  status_code)),
                   !.failures = IF status_code = HTTP_CREATED THEN @
                                ELSE @ \cup {"post_status"}]]
          /\ last_full_comment' = loc[d].all_reviews[loc[d].ridx]
     \/ /\ loc' = [loc EXCEPT ![d].pc = "done", ![d].response = Failed("Timeout")]
        /\ obs' = [obs EXCEPT ![d] =
                     [AuthCall(@, "post") EXCEPT !.failures = @ \cup {"post"}]]
        /\ UNCHANGED last_full_comment
  /\ UNCHANGED <<fcall, profile, clock, GITHUB_TOKEN, headers_github, last_patches,
                 nextTok, lastTok, budget, loop>>

\* lines 306-315: the summary is returned
Return(d) ==
  /\ loc[d].pc = "return"
  /\ loop = d
  /\ loc' = [loc EXCEPT ![d].pc = "done",
                        ![d].response =
                          Response("summary", HTTP_OK, <<"Webhook processed successfully">>,
                                   Len(loc[d].files), loc[d].code_files_count,
                                   loc[d].all_reviews # <<>>, loc[d].success)]
  /\ UNCHANGED <<fcall, clock, globals, nextTok, lastTok, budget, loop, obs>>

\* the response is sent; the handler's locals are gone and the event loop is free
Respond(d) ==
  /\ loc[d].pc = "done"
  /\ loop = d
  /\ loop' = 0
  /\ loc' = [loc EXCEPT ![d] = InitLoc]
  /\ obs' = [obs EXCEPT ![d] = InitObs]
  /\ UNCHANGED <<fcall, clock, globals, nextTok, lastTok, budget>>

Next ==
  \/ Tick
  \/ \E d \in Deliveries :
       \/ Receive(d)
       \/ Start(d)
       \/ Exchange(d)
       \/ FetchFiles(d)
       \/ SkipFile(d)
       \/ ReviewFile(d)
       \/ GetCommitSha(d)
       \/ PrepareComment(d)
       \/ SubmitReview(d)
       \/ Return(d)
       \/ Respond(d)

Spec == Init /\ [][Next]_vars

\* ------------------------------------------------ the functions on their own
\* parse_patch_changes, should_review_file and query_openrouter_focused applied
\* to one file, whatever its patch text is; the service itself stands still.
MaxPatchLen == 4

\* "@@ -1,2 +1,3 @@", "@@ -7 +12 @@", and a header the regex does not match
Hunk_1 == Patch_mod[1]
Hunk_12 == <<"@", "@", " ", "-", "7", " ", "+", "1", "2", " ", "@", "@">>
Hunk_bad == <<"@", "@", " ", "b", "a", "d">>

\* the lines a patch text is made of
DiffLines ==
  { Hunk_1, Hunk_12, Hunk_bad,
    <<" ", "c">>, <<"+", "x">>, <<"-", "y">>, <<"\\", " ", "N", "o">>,
    <<"+", "+", "+", " ", "b">>, <<"-", "-", "-", " ", "a">>, <<>> }

\* patch texts of at most n lines (the text of one empty line is the empty text)
PatchTexts(n) ==
  {<<>>} \cup {q \in SeqsUpTo(DiffLines, n) : q # << <<>> >>}

\* the files the functions are applied to
CallFiles ==
  { FilePatch(nm[1], nm[2], q) :
      nm \in {<<Name_a, "modified">>, <<Name_c, "renamed">>},
      q \in PatchTexts(MaxPatchLen) }

FnInit ==
  /\ ServiceInit
  /\ profile = "review"
  /\ \E file \in CallFiles :
       fcall = Call(file, "parse", 0, EmptyChanges, FALSE, NoChangesText, FALSE)

\* model.py lines 55-66: one iteration of the loop of parse_patch_changes
ParseStep ==
  /\ fcall.stage = "parse"
  /\ fcall.idx < Len(SplitLines(fcall.file.patch))
  /\ fcall' = [fcall EXCEPT
                 !.idx = @ + 1,
                 !.changes = ParseLine(@, SplitLines(fcall.file.patch)[fcall.idx + 1])]
  /\ UNCHANGED <<clock, globals, nextTok, lastTok, budget, loop, loc, obs>>

\* model.py line 67: parse_patch_changes returns
ParseReturn ==
  /\ fcall.stage = "parse"
  /\ fcall.idx = Len(SplitLines(fcall.file.patch))
  /\ fcall' = [fcall EXCEPT !.stage = "filter"]
  /\ UNCHANGED <<clock, globals, nextTok, lastTok, budget, loop, loc, obs>>

\* main.py lines 197-225: should_review_file is applied to the file
FilterCall ==
  /\ fcall.stage = "filter"
  /\ fcall' = [fcall EXCEPT
                 !.stage = "query",
                 !.verdict = should_review_file(fcall.file.filename, fcall.file.patch)]
  /\ UNCHANGED <<clock, globals, nextTok, lastTok, budget, loop, loc, obs>>

\* model.py lines 204-235: query_openrouter_focused is applied to the file
QueryCall ==
  /\ fcall.stage = "query"
  /\ \E resp \in LlmResponses("traffic", fcall.file.filename) :
       fcall' = [fcall EXCEPT
                   !.stage = "end",
                   !.called = CallsLLM(fcall.file.patch),
                   !.answer = query_openrouter_focused(
                                fcall.file.filename, fcall.file.patch,
                                fcall.file.status, resp)]
  /\ UNCHANGED <<clock, globals, nextTok, lastTok, budget, loop, loc, obs>>

FnNext == ParseStep \/ ParseReturn \/ FilterCall \/ QueryCall

FnSpec == FnInit /\ [][FnNext]_vars

\* ================================================================= claims
Range(q) == {q[i] : i \in 1..Len(q)}

\* a finding the posting loop keeps whenever its path lookup succeeds
Complete(c) == HasKey(c, "file") /\ HasKey(c, "end_line") /\ HasKey(c, "body")

\* the delivery has ended with the summary of a run that posted
PostedSummary(d) ==
  /\ loc[d].pc = "done"
  /\ loc[d].response.kind = "summary"
  /\ loc[d].response.review_posted

\* C1: a delivery that reaches the posting step makes exactly one review
\* submission, and that submission carries the findings of all reviewed files
\* (each complete finding is among its comments unless it was dropped), for any
\* number of reviewed files.
C1_OneSubmissionForAllFiles ==
  \A d \in Deliveries :
    PostedSummary(d) =>
      /\ Len(obs[d].posts) = 1
      /\ \A r \in 1..Len(loc[d].all_reviews) :
           \A c \in Range(loc[d].all_reviews[r].items) :
             Complete(c) =>
               \/ c \in Range(obs[d].dropped)
               \/ \E k \in Range(obs[d].posts[1].comments) : k.body = c.body

\* C2: a delivery that ends with a failure response has made no review
\* submission on the pull request.
C2_NoSubmissionOnFailure ==
  \A d \in Deliveries :
    (loc[d].pc = "done" /\ loc[d].response.kind = "error") => obs[d].posts = <<>>

\* the handler of d is past the token step
PastToken(d) ==
  loc[d].pc \in {"fetch", "review", "post_sha", "post_cmt", "post_send", "return"}

\* the token the previous delivery for d's installation obtained was still
\* valid when d arrived
PriorValidAtArrival(d) ==
  /\ obs[d].prior # NoToken
  /\ obs[d].arrived < obs[d].prior.at + TokenValidity

\* C3: a delivery that arrives within the validity window of the token the
\* previous delivery for the same installation obtained uses that token and
\* makes no exchange call; one that arrives after its expiry makes exactly one.
C3_TokenReuse ==
  \A d \in Deliveries :
    /\ PriorValidAtArrival(d) =>
         /\ obs[d].exchanges = 0
         /\ obs[d].toks \subseteq {obs[d].prior.id}
    /\ (PastToken(d) /\ obs[d].prior # NoToken /\ ~PriorValidAtArrival(d)) =>
         obs[d].exchanges = 1

\* C4: deliveries for one installation that are in flight concurrently do not
\* trigger redundant exchanges: no delivery exchanges a token while the token a
\* concurrent delivery obtained for the same installation is still valid.
C4_SingleFlight ==
  \A d \in Deliveries : ~obs[d].redundant

\* C5: every authenticated call of a delivery is made with a token whose
\* validity window has not elapsed at the time of the call.
C5_TokenFresh ==
  \A d \in Deliveries : obs[d].stale = {}

\* C6: a finding whose file name resolves to no path of the pull request is
\* dropped: no submitted comment has an absent path, and the drop is recorded
\* as a partial failure (the delivery's success flag is false).
C6_UnresolvedDropped ==
  \A d \in Deliveries :
    \A s \in Range(obs[d].posts) :
      \A k \in Range(s.comments) : k.path # NonePath

\* the r-th reviewed file of d got HTTP 500 from the LLM endpoint
Llm500(d, r) ==
  /\ obs[d].llm[r].called
  /\ ~obs[d].llm[r].exc
  /\ obs[d].llm[r].status_code = 500

\* C7: when the LLM endpoint returns HTTP 500 for a file, the file's review is
\* a single finding whose body contains "Review Error", and the submission
\* posted for it contains that finding among its comments.
C7_Http500Finding ==
  \A d \in Deliveries :
    \A r \in 1..Len(obs[d].llm) :
      Llm500(d, r) =>
        LET review == loc[d].all_reviews[r]
        IN /\ review.t = "list"
           /\ Len(review.items) = 1
           /\ "Review Error" \in Range(review.items[1].body)
           /\ PostedSummary(d) =>
                \E s \in Range(obs[d].posts) :
                  \E k \in Range(s.comments) : k.body = review.items[1].body

\* a synthetic error entry: a finding whose body reports the review error
ErrorEntry(c) ==
  c.t = "dict" /\ "body" \in c.keys
  /\ ("Review Error" \in Range(c.body) \/ "Review error in " \in Range(c.body))

\* C8: an LLM content that is not a valid list of finding objects yields a
\* non-empty findings sequence with a synthetic error entry, and the delivery
\* does not end in an error response because of it.
C8_MalformedIsolated ==
  \A d \in Deliveries :
    \A r \in 1..Len(obs[d].llm) :
      (obs[d].llm[r].has_choices /\ ~obs[d].llm[r].valid) =>
        LET review == loc[d].all_reviews[r]
        IN /\ review.t = "list"
           /\ \E c \in Range(review.items) : ErrorEntry(c)
           /\ loc[d].response # Failed("TypeError")

\* C9: a pull-request payload whose action is closed, locked or unlocked ends
\* at once in the no-op response "Action <action> ignored" with no outbound
\* call, and so does, with a no-op response, a payload without pull_request.
C9_IgnoredActionIsNoOp ==
  \A d \in Deliveries :
    LET p == loc[d].payload
    IN loc[d].pc \notin {"idle", "await"} /\ p.json =>
         /\ (p.has_pull_request /\ p.pr_data /\ p.action \in IgnoredActions) =>
              /\ loc[d].pc = "done"
              /\ loc[d].response = NoOp(<<"Action ", p.action, " ignored">>)
              /\ obs[d].calls = {}
         /\ ~p.has_pull_request =>
              /\ loc[d].pc = "done"
              /\ loc[d].response.kind = "noop"
              /\ obs[d].calls = {}

\* the new-file line numbers of the lines present in a patch
PatchLines(patch) ==
  LET changes == parse_patch_changes(patch)
  IN {changes.added_lines[i][1] : i \in 1..Len(changes.added_lines)}
     \cup {changes.context_lines[i][1] : i \in 1..Len(changes.context_lines)}

\* C10: every submitted inline comment carries a position that is a line of
\* the patch of the file it is attached to.
C10_ValidPositions ==
  \A d \in Deliveries :
    \A s \in Range(obs[d].posts) :
      \A k \in Range(s.comments) :
        \A f \in Range(loc[d].files) :
          f.filename = k.path => k.position \in PatchLines(f.patch)

\* ---------------------------------------------------------------- C11
\* a hunk header of the shape "@@ -a,b +c,d @@", and the c it declares
WellFormedHeader(line) == line \in {Hunk_1, Hunk_12}
HunkStart(line) == IF line = Hunk_1 THEN 1 ELSE 12

\* a line of a hunk's body: context, added, removed, or the no-newline marker
BodyLine(line) == line # <<>> /\ line[1] \in {" ", "+", "-", "\\"}

\* a valid unified diff: the "---" / "+++" file header or none, then hunks
ValidDiff(patch) ==
  \E k \in {0, 2} :
    /\ k < Len(patch)
    /\ k = 2 => /\ patch[1] = <<"-", "-", "-", " ", "a">>
                /\ patch[2] = <<"+", "+", "+", " ", "b">>
    /\ WellFormedHeader(patch[k + 1])
    /\ \A i \in (k + 2)..Len(patch) : WellFormedHeader(patch[i]) \/ BodyLine(patch[i])

\* the last hunk header among the first k lines, or 0
LastHeader(lines, k) ==
  LET H == {i \in 1..k : WellFormedHeader(lines[i])}
  IN IF H = {} THEN 0 ELSE CHOOSE i \in H : \A j \in H : j <= i

\* a line of the new file: added or context
InNewFile(line) == line # <<>> /\ line[1] \in {"+", " "}

\* the new-file line number of the next line after the first k lines of a hunk
NewFileLine(lines, k) ==
  LET h == LastHeader(lines, k)
  IN HunkStart(lines[h]) + Cardinality({i \in (h + 1)..k : InNewFile(lines[i])})

\* C11: on a valid unified diff, when parse_patch_changes has consumed k lines
\* and is inside a hunk, its counter is the header's declared start plus the
\* number of added and context lines of the hunk so far (removed lines and
\* no-newline markers do not count), and an added or context line just
\* consumed was recorded with the number the counter had before it; the
\* scenario patch yields its added line at new-file line 2.
C11_LineNumbers ==
  LET lines == SplitLines(fcall.file.patch)
      k == fcall.idx
      ch == fcall.changes
  IN (fcall.stage # "none" /\ ValidDiff(fcall.file.patch) /\ LastHeader(lines, k) > 0)
     => /\ ch.current_line_num = NewFileLine(lines, k)
        /\ (k > LastHeader(lines, k) /\ InNewFile(lines[k]))
             => \E e \in Range(ch.added_lines) \cup Range(ch.context_lines) :
                  /\ e[1] = NewFileLine(lines, k - 1)
                  /\ e[2] \in {Rest(lines[k]), lines[k]}
        /\ (fcall.file.patch = Patch_mod /\ k = Len(lines))
             => ch.added_lines = << <<2, <<"x">>>> >>

\* a valid diff parsed to its end, in which an added line follows a removed
\* line and a no-newline marker of the same hunk
C11_Witness ==
  /\ fcall.stage = "filter"
  /\ fcall.file.patch = <<Hunk_12, <<"-", "y">>, <<"\\", " ", "N", "o">>, <<"+", "x">>>>
  /\ fcall.changes.added_lines = << <<12, <<"x">>>> >>

\* ---------------------------------------------------------------- C12
\* a text that is no well-formed diff: it has no hunk header of the shape
\* "@@ -a,b +c,d @@", or it has an "@@" line of another shape
Malformed(patch) ==
  \/ \A i \in 1..Len(patch) : ~WellFormedHeader(patch[i])
  \/ \E i \in 1..Len(patch) :
       StartsWith(patch[i], <<"@", "@">>) /\ ~WellFormedHeader(patch[i])

\* C12: parse_patch_changes, applied to a text that is no well-formed unified
\* diff, returns (it never raises) and its result has no added lines and no
\* removed lines.
C12_MalformedGivesEmpty ==
  (fcall.stage \in {"filter", "query", "end"} /\ Malformed(fcall.file.patch))
    => /\ fcall.changes.added_lines = <<>>
       /\ fcall.changes.removed_lines = <<>>

\* ---------------------------------------------------------------- C13
\* a patch with no "+" / "-" content line: all such lines are "+++" / "---"
MetadataOnly(patch) ==
  \A i \in 1..Len(patch) :
    (StartsWith(patch[i], <<"+">>) \/ StartsWith(patch[i], <<"-">>))
      => (StartsWith(patch[i], <<"+", "+", "+">>) \/ StartsWith(patch[i], <<"-", "-", "-">>))

\* C13: should_review_file returns false for a file whose patch is empty or
\* metadata-only (a renamed file without content lines included), so the
\* handler, which queries the LLM for accepted files only, issues no request
\* for it; and query_openrouter_focused, applied to a file whose parsed diff
\* has no added and no removed lines, returns the "nothing to review" text
\* without reaching its request to the LLM.
C13_NothingToReview ==
  /\ (fcall.stage \in {"query", "end"} /\ MetadataOnly(fcall.file.patch))
       => ~fcall.verdict
  /\ (fcall.stage = "end" /\ MetadataOnly(fcall.file.patch))
       => ~(fcall.verdict /\ fcall.called)
  /\ (fcall.stage = "end" /\ fcall.changes.added_lines = <<>>
                          /\ fcall.changes.removed_lines = <<>>)
       => /\ ~fcall.called
          /\ fcall.answer = NoChangesText

\* both functions applied to a renamed code file whose patch is not empty and
\* has header lines only, and whose parsed diff has nothing added or removed
C13_Witness ==
  /\ fcall.stage = "end"
  /\ fcall.file.status = "renamed"
  /\ fcall.file.patch # <<>>
  /\ MetadataOnly(fcall.file.patch)
  /\ \E i \in 1..Len(fcall.file.patch) : StartsWith(fcall.file.patch[i], <<"+", "+", "+">>)
  /\ fcall.changes.added_lines = <<>>
  /\ fcall.changes.removed_lines = <<>>
  /\ ~fcall.verdict
  /\ ~fcall.called

\* ---------------------------------------------------------------- C14
\* the changed-files fetch of delivery d returned a list
Fetched(d) ==
  /\ "files" \in obs[d].calls
  /\ obs[d].failures \cap {"files_status", "files"} = {}

\* C14: a delivery whose changed-files fetch returned a non-success status
\* ends there with an error response, having made no LLM call and no review
\* submission; a delivery whose fetch returned the empty list makes no LLM
\* call and no submission and can only return the summary with files_total 0,
\* files_reviewed 0 and review_posted false.
C14_FetchOutcome ==
  \A d \in Deliveries :
    /\ "files_status" \in obs[d].failures
         => /\ loc[d].pc = "done"
            /\ loc[d].response.kind = "error"
            /\ loc[d].response.status_code = 500
            /\ obs[d].calls \cap {"llm", "sha", "resolve", "post"} = {}
            /\ obs[d].posts = <<>>
    /\ (Fetched(d) /\ loc[d].files = <<>>)
         => /\ loc[d].pc \in {"return", "done"}
            /\ obs[d].calls \cap {"llm", "sha", "resolve", "post"} = {}
            /\ obs[d].posts = <<>>
            /\ loc[d].pc = "done"
                 => /\ loc[d].response.kind = "summary"
                    /\ loc[d].response.files_total = 0
                    /\ loc[d].response.files_reviewed = 0
                    /\ ~loc[d].response.review_posted

\* a delivery ended by a non-success status of the changed-files fetch
C14_Witness ==
  \E d \in Deliveries :
    /\ loc[d].pc = "done"
    /\ "files_status" \in obs[d].failures
    /\ loc[d].response = HTTPException(<<"Failed to fetch PR files">>)

\* ---------------------------------------------------------------- C15
\* the stage of the pipeline a handler's position belongs to
Stage(pc) ==
  CASE pc = "idle" -> 0
    [] pc = "await" -> 1
    [] pc = "token" -> 2
    [] pc = "fetch" -> 3
    [] pc = "review" -> 4
    [] pc \in {"post_sha", "post_cmt", "post_send"} -> 5
    [] pc = "return" -> 6
    [] pc = "done" -> 7

\* where the handler stands: its stage, then the file it is at, then the
\* review it is posting, the step of posting it, and the comment it is at
SubStage(pc) == IF pc = "post_cmt" THEN 1 ELSE IF pc = "post_send" THEN 2 ELSE 0
Position(l) == <<Stage(l.pc), l.idx, l.ridx, SubStage(l.pc), l.cidx>>

\* lexicographic order on positions
Before(p, q) ==
  \E i \in 1..Len(p) : p[i] < q[i] /\ \A j \in 1..(i - 1) : p[j] = q[j]

\* the loops of the handler are over the fetched files, the reviews and the
\* comments of a review: an index ends one past the last element, and in the
\* body of a loop it is at an element, so that the next step is defined
WithinLoops(l) ==
  /\ l.idx <= Len(l.files) + 1
  /\ l.ridx <= Len(l.all_reviews) + 1
  /\ l.pc = "review" => l.idx \in 1..Len(l.files)
  /\ l.pc \in {"post_sha", "post_cmt", "post_send"} => l.ridx \in 1..Len(l.all_reviews)
  /\ l.pc = "post_cmt" => l.cidx \in 1..Len(l.all_reviews[l.ridx].items)

\* C15: a delivery reaches a terminal outcome (a no-op, a summary or an error
\* response) when every outbound call returns or times out: every step of its
\* handler moves it forward in its finite loops, no step leads back to an
\* earlier stage (token exchange, file fetch, per-file review, posting, in
\* this order), and a step leaves the token exchange and the file fetch for a
\* later stage, so that each is executed at most once.
C15_Terminates ==
  [][\A d \in Deliveries :
       /\ (loc[d].pc \notin {"idle", "done"} /\ loc'[d] # loc[d])
            => /\ Before(Position(loc[d]), Position(loc'[d]))
               /\ WithinLoops(loc'[d])
               /\ Stage(loc'[d].pc) >= Stage(loc[d].pc)
               /\ loc[d].pc \in {"await", "token", "fetch"}
                    => Stage(loc'[d].pc) > Stage(loc[d].pc)
               /\ obs'[d].exchanges <= 1
               /\ loc'[d].pc = "done"
                    => loc'[d].response.kind \in {"noop", "summary", "error"}]_vars

\* a delivery that went through all four stages and returned its summary
C15_Witness ==
  \E d \in Deliveries :
    /\ loc[d].pc = "done"
    /\ loc[d].response.kind = "summary"
    /\ obs[d].exchanges = 1
    /\ {"files", "llm", "post"} \subseteq obs[d].calls

\* ---------------------------------------------------------------- C16
\* the failures that raise inside the handler: the body does not decode, a
\* payload field is missing, the token exchange, the changed-files fetch or
\* the commit fetch fails, the review is not iterable, the submission raises
Raising == {"payload", "field", "exchange", "files_status", "files", "sha", "comments", "post"}

\* C16 as stated: a delivery in which payload decoding, a payload field
\* lookup, the token exchange, a call to the repository service or posting
\* fails ends with an error response that carries a status code and a message.
C16_EveryFailureIsError ==
  \A d \in Deliveries :
    (loc[d].pc = "done" /\ obs[d].failures # {})
      => /\ loc[d].response.kind = "error"
         /\ loc[d].response.status_code >= 400
         /\ loc[d].response.message # <<>>

\* C16, amended: no failure leaves the handler as a raw exception, and a
\* delivery in which a step raises (payload decoding, a payload field lookup,
\* the token exchange, the changed-files fetch, the commit fetch, the loop
\* over a review that is not iterable, the submission request) ends with an
\* error response of status 500 with a message; only a failed path resolution
\* and a rejected submission leave the delivery on its way to the summary.
C16_NoRawException ==
  \A d \in Deliveries :
    loc[d].pc = "done"
      => /\ loc[d].response.kind \in {"noop", "summary", "error"}
         /\ obs[d].failures \cap Raising # {}
              => /\ loc[d].response.kind = "error"
                 /\ loc[d].response.status_code = 500
                 /\ loc[d].response.message # <<>>
         /\ loc[d].response.kind \in {"noop", "summary"}
              => obs[d].failures \subseteq {"resolve", "post_status"}

\* a delivery whose submission request raised after a path resolution failed
C16_Witness ==
  \E d \in Deliveries :
    /\ loc[d].pc = "done"
    /\ {"resolve", "post"} \subseteq obs[d].failures
    /\ loc[d].response = Failed("Timeout")

\* ---------------------------------------------------------------- C17
\* the files of a list that pass the filter
Accepted(files) ==
  SelectSeq(files, LAMBDA f : should_review_file(f.filename, f.patch))

\* C17: while a delivery is in its per-file review phase it has made no call
\* of the posting phase (so nothing is posted if it is cut off there), and
\* once it has made one, every fetched file has been dealt with and every file
\* that passed the filter has its review.
C17_PostAfterAllReviewed ==
  \A d \in Deliveries :
    /\ loc[d].pc \in {"fetch", "review"}
         => /\ obs[d].posts = <<>>
            /\ obs[d].calls \cap {"sha", "resolve", "post"} = {}
    /\ obs[d].calls \cap {"sha", "resolve", "post"} # {}
         => /\ loc[d].idx = Len(loc[d].files) + 1
            /\ Len(loc[d].all_reviews) = Len(Accepted(loc[d].files))
            /\ Len(obs[d].llm) = Len(Accepted(loc[d].files))

\* a submission has been made in a delivery with two reviewed files
C17_Witness ==
  \E d \in Deliveries :
    /\ obs[d].posts # <<>>
    /\ Len(Accepted(loc[d].files)) = 2
    /\ Len(loc[d].all_reviews) = 2

\* ---------------------------------------------------------------- C18
IsAddition(line) == StartsWith(line, <<"+">>) /\ ~StartsWith(line, <<"+", "+", "+">>)
IsRemoval(line) == StartsWith(line, <<"-">>) /\ ~StartsWith(line, <<"-", "-", "-">>)
FileHeader(line) == StartsWith(line, <<"+", "+", "+">>) \/ StartsWith(line, <<"-", "-", "-">>)

\* C18: an iteration of parse_patch_changes records the line as added iff it
\* begins with "+" but not "+++", as removed iff it begins with "-" but not
\* "---", and for a line beginning with "+++" or "---" it records nothing
\* (neither added, removed nor context) and leaves the counter as it is.
C18_Classification ==
  [][(fcall.stage = "parse" /\ fcall'.idx = fcall.idx + 1)
       => LET line == SplitLines(fcall.file.patch)[fcall.idx + 1]
              before == fcall.changes
              after == fcall'.changes
          IN /\ (after.added_lines # before.added_lines) <=> IsAddition(line)
             /\ (after.removed_lines # before.removed_lines) <=> IsRemoval(line)
             /\ FileHeader(line) => after = before]_vars

\* ---------------------------------------------------------------- C19
\* a is b with some elements left out
RECURSIVE IsSubseq(_, _)
IsSubseq(a, b) ==
  IF a = <<>> THEN TRUE
  ELSE IF b = <<>> THEN FALSE
  ELSE IF Head(a) = Head(b) THEN IsSubseq(Tail(a), Tail(b))
  ELSE IsSubseq(a, Tail(b))

\* the comments the elements of a review stand for, in the review's order
CommentsOf(files, items) ==
  [i \in 1..Len(items) |->
     Comment(find_file_path_in_pr(files, items[i].file), items[i].end_line, items[i].body)]

\* the first n elements of a sequence
Prefix(q, n) == SubSeq(q, 1, n)

\* C19: the reviews are made in the order of the fetched files (the patches
\* reviewed so far are those of the accepted files fetched so far, in their
\* order), the k-th submission is the one for the k-th review, and its
\* comments are those of the review's findings, in the order the LLM gave
\* them, with some left out: dropping a finding never reorders the others.
C19_Ordering ==
  \A d \in Deliveries :
    LET l == loc[d]
        o == obs[d]
    IN /\ (loop = d /\ l.pc \in {"review", "post_sha", "post_cmt", "post_send", "return"})
            => /\ last_patches = [i \in 1..Len(Accepted(Prefix(l.files, l.idx - 1))) |->
                                    Accepted(Prefix(l.files, l.idx - 1))[i].patch]
               /\ Len(l.all_reviews) = Len(last_patches)
       /\ Len(o.posts) <= Len(l.all_reviews)
       /\ \A k \in 1..Len(o.posts) :
            IsSubseq(o.posts[k].comments, CommentsOf(l.files, l.all_reviews[k].items))
       /\ l.pc \in {"post_cmt", "post_send"}
            => IsSubseq(l.formatted_comments,
                        CommentsOf(l.files, Prefix(l.all_reviews[l.ridx].items, l.cidx - 1)))

\* the second submission of a delivery carries two different comments
C19_Witness ==
  \E d \in Deliveries :
    /\ Len(obs[d].posts) = 2
    /\ Len(obs[d].posts[2].comments) = 2
    /\ obs[d].posts[2].comments[1] # obs[d].posts[2].comments[2]

\* ---------------------------------------------------------------- C20
\* C20: apart from the installation token and the headers, a delivery leaves
\* nothing behind in the process: when no handler is running, the module's
\* other globals (the patches and the last review) are as they were at
\* start-up.
C20_OnlyTokenPersists ==
  loop = 0
    => /\ last_patches = <<>>
       /\ last_full_comment = [t |-> "str", items |-> <<>>]

\* ---------------------------------------------------------------- C21
\* C21: every authenticated call a delivery has made to the repository
\* service (files, commit, path resolution, submission) carried the token
\* minted in that delivery, which is a token for the delivery's installation,
\* whatever other deliveries are in flight.
C21_OwnToken ==
  \A d \in Deliveries :
    obs[d].toks # {}
      => /\ obs[d].minted # NoToken
         /\ obs[d].toks = {obs[d].minted.id}
         /\ obs[d].minted.inst = loc[d].payload.installation_id

\* a delivery has fetched its files and submitted a review while a delivery
\* for another installation is in flight
C21_Witness ==
  \E d, e \in Deliveries :
    /\ d # e
    /\ loc[e].pc = "await"
    /\ loc[e].payload.installation_id \in Installations
    /\ loc[e].payload.installation_id # loc[d].payload.installation_id
    /\ {"files", "sha", "resolve", "post"} \subseteq obs[d].calls
    /\ obs[d].toks = {obs[d].minted.id}

\* ---------------------------------------------------------------- C22
\* C22: the success flag of a delivery's summary is true only if every review
\* submission of the delivery was answered 201 and no finding was dropped
\* while the comments of any of them were prepared; it is false when no file
\* was reviewed.
C22_SuccessMeansAll ==
  \A d \in Deliveries :
    (loc[d].pc = "done" /\ loc[d].response.kind = "summary")
      => /\ loc[d].response.success
              => /\ \A k \in 1..Len(obs[d].posts) :
                      obs[d].posts[k].status_code = HTTP_CREATED
                 /\ obs[d].dropped = <<>>
         /\ loc[d].all_reviews = <<>> => ~loc[d].response.success
====
